---- MODULE Spec2Model ----
(***************************************************************************)
(* State-machine model of the spreadsheet engine: Sheet (the cell map),    *)
(* Cell (body, cache, the two adjacency sets) and Formula (evaluation      *)
(* against the sheet).  A cell pointer is modelled by the position of the  *)
(* map slot that owns the cell: a slot owns at most one Cell object over   *)
(* the whole run, because a slot whose pointer was reset is never filled   *)
(* again (Sheet::SetCell only emplaces when the key is missing).           *)
(***************************************************************************)
EXTENDS Integers, Sequences, FiniteSets, TLC

(***************************************************************************)
(* Positions.                                                              *)
(***************************************************************************)
\* Number of columns (A, B, C, ...) of row 1 that the calls of a run address.
MaxCol == 3

\* Valid range of rows and columns.
MAX_ROWS == 16384
MAX_COLS == 16384

\* Position::NONE, what parsing an out-of-range reference gives.
NONE == [row |-> -1, col |-> -1]

IsValid(pos) ==
    /\ pos.row >= 0 /\ pos.row < MAX_ROWS
    /\ pos.col >= 0 /\ pos.col < MAX_COLS

A1 == [row |-> 0, col |-> 0]
B1 == [row |-> 0, col |-> 1]
C1 == [row |-> 0, col |-> 2]

\* The positions the calls of a run address; every reference of a formula
\* of Texts that is valid lies among the first three.
Pos == {[row |-> 0, col |-> c] : c \in 0..(MaxCol - 1)}

(***************************************************************************)
(* Texts are sequences of characters.  Those a client passes: the empty   *)
(* text, two numbers, a word, three formulas (one with an out-of-range     *)
(* reference before a valid one) and a formula that does not parse.        *)
(***************************************************************************)
FORMULA_SIGN == "="
ESCAPE_SIGN == "'"

Texts ==
    { <<>>,
      <<"1", "0">>,
      <<"2", "0">>,
      <<"x">>,
      <<"=", "B", "1", "+", "1">>,
      <<"=", "A", "1">>,
      <<"=", "A", "1", "6", "3", "8", "5", "+", "C", "1">>,
      <<"=", "1", "+">> }

Digits == {"0", "1", "2", "3", "4", "5", "6", "7", "8", "9"}
Letters == {"A", "B", "C", "D", "E", "F", "G", "H", "I", "J", "K", "L", "M",
            "N", "O", "P", "Q", "R", "S", "T", "U", "V", "W", "X", "Y", "Z"}

DigitVal(c) ==
    CASE c = "0" -> 0 [] c = "1" -> 1 [] c = "2" -> 2 [] c = "3" -> 3
      [] c = "4" -> 4 [] c = "5" -> 5 [] c = "6" -> 6 [] c = "7" -> 7
      [] c = "8" -> 8 [] c = "9" -> 9

LetterVal(c) ==
    CASE c = "A" -> 0 [] c = "B" -> 1 [] c = "C" -> 2 [] c = "D" -> 3
      [] c = "E" -> 4 [] c = "F" -> 5 [] c = "G" -> 6 [] c = "H" -> 7
      [] c = "I" -> 8 [] c = "J" -> 9 [] c = "K" -> 10 [] c = "L" -> 11
      [] c = "M" -> 12 [] c = "N" -> 13 [] c = "O" -> 14 [] c = "P" -> 15
      [] c = "Q" -> 16 [] c = "R" -> 17 [] c = "S" -> 18 [] c = "T" -> 19
      [] c = "U" -> 20 [] c = "V" -> 21 [] c = "W" -> 22 [] c = "X" -> 23
      [] c = "Y" -> 24 [] c = "Z" -> 25

\* Index of the first character at or after i that is not in set (Len + 1
\* when there is none).
RECURSIVE SkipRun(_, _, _)
SkipRun(text, i, set) ==
    IF i <= Len(text) /\ text[i] \in set THEN SkipRun(text, i + 1, set) ELSE i

\* The decimal number written by text[i .. j-1].
RECURSIVE DecimalValue(_, _, _, _)
DecimalValue(text, i, j, acc) ==
    IF i >= j THEN acc
    ELSE DecimalValue(text, i + 1, j, acc * 10 + DigitVal(text[i]))

\* The decimal digits of a natural number.
RECURSIVE DecimalText(_)
DecimalText(n) ==
    IF n < 10 THEN <<CHOOSE c \in Digits : DigitVal(c) = n>>
    ELSE Append(DecimalText(n \div 10), CHOOSE c \in Digits : DigitVal(c) = n % 10)

\* Position::ToString for a valid position in one of the columns A..Z.
PositionToString(pos) ==
    <<CHOOSE l \in Letters : LetterVal(l) = pos.col>> \o DecimalText(pos.row + 1)

\* Position::FromString on a single column letter followed by the 1-based
\* row n, whose first digit is first: NONE when the row is 0, has a leading
\* zero or is out of range.
PositionFromString(letter, first, n) ==
    IF first # "0" /\ IsValid([row |-> n - 1, col |-> LetterVal(letter)])
    THEN [row |-> n - 1, col |-> LetterVal(letter)]
    ELSE NONE

(***************************************************************************)
(* The formula language: numbers, cell references, binary + - * /.         *)
(* An expression tree is a record [op, val, pos, lhs, rhs].                *)
(***************************************************************************)
NoExpr == [op |-> "none"]
NumberExpr(n) == [op |-> "num", val |-> n, pos |-> NONE, lhs |-> NoExpr, rhs |-> NoExpr]
CellExpr(p) == [op |-> "cell", val |-> 0, pos |-> p, lhs |-> NoExpr, rhs |-> NoExpr]
BinaryOpExpr(o, l, r) == [op |-> o, val |-> 0, pos |-> NONE, lhs |-> l, rhs |-> r]

\* Result of parsing: ok, the tree, the cells of the tree in source order,
\* the index of the next unread character.
ParseFail == [ok |-> FALSE, expr |-> NoExpr, cells |-> <<>>, next |-> 0]
Parsed(expr, cells, next) == [ok |-> TRUE, expr |-> expr, cells |-> cells, next |-> next]

\* cellref := [A-Z][1-9][0-9]*, read from text[i] with its digits ending
\* before j.
CellPrimary(text, i, j, cells, p) == Parsed(CellExpr(p), Append(cells, p), j)

\* primary := number | cellref
ParsePrimary(text, i, cells) ==
    IF i > Len(text) THEN ParseFail
    ELSE IF text[i] \in Digits THEN
        Parsed(NumberExpr(DecimalValue(text, i, SkipRun(text, i, Digits), 0)),
               cells, SkipRun(text, i, Digits))
    ELSE IF text[i] \in Letters /\ SkipRun(text, i + 1, Digits) > i + 1 THEN
        CellPrimary(text, i, SkipRun(text, i + 1, Digits), cells,
            PositionFromString(text[i], text[i + 1],
                DecimalValue(text, i + 1, SkipRun(text, i + 1, Digits), 0)))
    ELSE ParseFail

\* The operand e joins the tree acc built so far by the pending operator op.
Fold(op, acc, e) == IF op = "" THEN e ELSE BinaryOpExpr(op, acc, e)

\* expr := term (('+' | '-') term)*, term := primary (('*' | '/') primary)*,
\* both left-associative.  ps is what was read before text[i]: the sum so
\* far and its pending operator, the term so far and its pending operator,
\* and the cells.
StartOfParse == [sum |-> NoExpr, sumop |-> "", term |-> NoExpr, termop |-> "",
                 cells |-> <<>>]

RECURSIVE ParseFrom(_, _, _)
RECURSIVE ParseOperator(_, _, _, _, _)

ParseAfterPrimary(text, prim, ps) ==
    IF ~prim.ok THEN ParseFail
    ELSE ParseOperator(text, prim.next, Fold(ps.termop, ps.term, prim.expr),
                       prim.cells, ps)

ParseOperator(text, j, term, cells, ps) ==
    IF j > Len(text) THEN Parsed(Fold(ps.sumop, ps.sum, term), cells, j)
    ELSE IF text[j] \in {"*", "/"} THEN
        ParseFrom(text, j + 1,
            [ps EXCEPT !.term = term, !.termop = text[j], !.cells = cells])
    ELSE IF text[j] \in {"+", "-"} THEN
        ParseFrom(text, j + 1,
            [sum |-> Fold(ps.sumop, ps.sum, term), sumop |-> text[j],
             term |-> NoExpr, termop |-> "", cells |-> cells])
    ELSE ParseFail

ParseFrom(text, i, ps) == ParseAfterPrimary(text, ParsePrimary(text, i, ps.cells), ps)

\* ParseFormulaAST: the whole text must be one expression.
ParseFormulaAST(text) == ParseFrom(text, 1, StartOfParse)

\* FormulaAST::PrintFormula, the canonical text of a tree.  The trees of
\* this grammar need no parentheses.  The rendering of an invalid position is
\* left open; it is written here as the text of the Ref error.
RECURSIVE PrintFormula(_)
PrintFormula(expr) ==
    IF expr.op = "num" THEN DecimalText(expr.val)
    ELSE IF expr.op = "cell" THEN
        IF IsValid(expr.pos) THEN PositionToString(expr.pos)
        ELSE <<"#", "R", "E", "F", "!">>
    ELSE PrintFormula(expr.lhs) \o <<expr.op>> \o PrintFormula(expr.rhs)

(***************************************************************************)
(* Values and cell bodies.                                                 *)
(***************************************************************************)
\* Cell::Value is string | double | FormulaError; the cache slot of a formula
\* body is an optional double | FormulaError.
DoubleValue(n) == [k |-> "double", d |-> n, e |-> "", s |-> <<>>]
StringValue(t) == [k |-> "string", d |-> 0, e |-> "", s |-> t]
ErrorValue(c) == [k |-> "error", d |-> 0, e |-> c, s |-> <<>>]
nullopt == [k |-> "nullopt", d |-> 0, e |-> "", s |-> <<>>]

\* Formula::GetReferencedCells: the valid positions of the tree's cell list,
\* then std::unique, which removes a position equal to its predecessor.
RECURSIVE KeepValid(_)
KeepValid(cells) ==
    IF cells = <<>> THEN <<>>
    ELSE IF IsValid(Head(cells)) THEN <<Head(cells)>> \o KeepValid(Tail(cells))
    ELSE KeepValid(Tail(cells))

RECURSIVE Unique(_)
Unique(cells) ==
    IF Len(cells) <= 1 THEN cells
    ELSE IF cells[1] = cells[2] THEN Unique(Tail(cells))
    ELSE <<cells[1]>> \o Unique(Tail(cells))

FormulaGetReferencedCells(cells) == Unique(KeepValid(cells))

\* A body: its kind, the text of a Text body, the tree and the cell list of
\* a Formula body.
EmptyImpl == [kind |-> "Empty", text |-> <<>>, expr |-> NoExpr, cells |-> <<>>]
TextImpl(text) == [kind |-> "Text", text |-> text, expr |-> NoExpr, cells |-> <<>>]
FormulaImpl(ast) ==
    [kind |-> "Formula", text |-> <<>>, expr |-> ast.expr, cells |-> ast.cells]

\* Impl::GetReferencedCells: {} unless the body is a formula.
GetReferencedCells(impl) ==
    IF impl.kind = "Formula" THEN FormulaGetReferencedCells(impl.cells) ELSE <<>>

\* Impl::GetText: EmptyImpl, TextImpl and FormulaImpl::GetText.
GetText(impl) ==
    IF impl.kind = "Empty" THEN <<>>
    ELSE IF impl.kind = "Text" THEN impl.text
    ELSE <<FORMULA_SIGN>> \o PrintFormula(impl.expr)

\* ParseFormula: the tree, or FormulaException (ok = FALSE).
ParseFormula(expression) == ParseFormulaAST(expression)

\* Variant: a text is a formula as soon as it starts with the formula sign.
CreateImpl_SignOnly(text) ==
    IF Len(text) = 0 THEN [ok |-> TRUE, impl |-> EmptyImpl]
    ELSE IF text[1] = FORMULA_SIGN THEN
        LET ast == ParseFormula(SubSeq(text, 2, Len(text)))
        IN IF ast.ok THEN [ok |-> TRUE, impl |-> FormulaImpl(ast)]
           ELSE [ok |-> FALSE, impl |-> EmptyImpl]
    ELSE [ok |-> TRUE, impl |-> TextImpl(text)]

\* Cell::CreateImpl: the body for a text, or FormulaException (ok = FALSE).
CreateImpl(text) ==
    IF Len(text) = 0 THEN [ok |-> TRUE, impl |-> EmptyImpl]
    ELSE IF Len(text) > 1 /\ text[1] = FORMULA_SIGN THEN
        LET ast == ParseFormula(SubSeq(text, 2, Len(text)))
        IN IF ast.ok THEN [ok |-> TRUE, impl |-> FormulaImpl(ast)]
           ELSE [ok |-> FALSE, impl |-> EmptyImpl]
    ELSE [ok |-> TRUE, impl |-> TextImpl(text)]

(***************************************************************************)
(* The sheet.  A sheet state st is a record of five maps over Pos:         *)
(*   cells_   "none" (no key), "null" (key whose pointer was reset),       *)
(*            "cell" (key owning a Cell)                                   *)
(*   impl_    the body of the Cell                                         *)
(*   cache_   the cache slot of a Formula body (nullopt otherwise)         *)
(*   l_nodes_ the cells that read this cell (incoming)                     *)
(*   r_nodes_ the cells this cell reads (outgoing)                         *)
(***************************************************************************)
\* A null Cell pointer.
nullptr == [row |-> -2, col |-> -2]

\* Some order in which a loop visits the elements of an unordered set.
RECURSIVE SetToSeq(_)
SetToSeq(S) ==
    IF S = {} THEN <<>>
    ELSE LET x == CHOOSE y \in S : TRUE IN <<x>> \o SetToSeq(S \ {x})

\* Sheet::GetCellPtr for a valid position: the Cell, or a null pointer when
\* the key is missing or its pointer was reset.
GetCellPtr(st, pos) ==
    IF st.cells_[pos] = "cell" THEN pos ELSE nullptr

\* Impl::IsCacheValid: true for Empty and Text bodies, cache_.has_value()
\* for a Formula body.
IsCacheValid(st, c) ==
    st.impl_[c].kind # "Formula" \/ st.cache_[c] # nullopt

\* The loop of Cell::WouldIntroduceCircularDependency over the stack
\* to_visit (its top is the last element).
RECURSIVE CycleSearch(_, _, _, _)
CycleSearch(st, referenced, to_visit, visited) ==
    IF to_visit = <<>> THEN FALSE
    ELSE LET current == to_visit[Len(to_visit)]
             rest == SubSeq(to_visit, 1, Len(to_visit) - 1)
             seen == visited \cup {current}
         IN IF current \in referenced THEN TRUE
            ELSE CycleSearch(st, referenced,
                     rest \o SetToSeq(st.l_nodes_[current] \ seen), seen)

\* Variant: only a reference to the cell itself is seen, the incoming edges
\* are not followed.
WouldIntroduceCircularDependency_SelfOnly(st, self, new_impl) ==
    \E i \in 1..Len(GetReferencedCells(new_impl)) :
        GetReferencedCells(new_impl)[i] = self

WouldIntroduceCircularDependency(st, self, new_impl) ==
    LET refs == GetReferencedCells(new_impl)
    IN IF refs = <<>> THEN FALSE
       ELSE CycleSearch(st, {GetCellPtr(st, refs[i]) : i \in 1..Len(refs)},
                        <<self>>, {})

\* Variant: the cells of todo lose their cache, the cells that read them
\* are not visited.
RECURSIVE InvalidateCacheRecursive_OwnCacheOnly(_, _, _)
InvalidateCacheRecursive_OwnCacheOnly(st, todo, force) ==
    IF todo = <<>> THEN st
    ELSE InvalidateCacheRecursive_OwnCacheOnly(
             [st EXCEPT !.cache_[Head(todo)] = nullopt], Tail(todo), force)

\* Cell::InvalidateCacheRecursive on the cache map: the cells of todo in
\* turn, each with the given force; the recursive calls pass force = false.
RECURSIVE InvalidateCacheRecursive(_, _, _)
InvalidateCacheRecursive(st, todo, force) ==
    IF todo = <<>> THEN st
    ELSE LET c == Head(todo)
             after ==
                 IF IsCacheValid(st, c) \/ force THEN
                     InvalidateCacheRecursive(
                         [st EXCEPT !.cache_[c] = nullopt],
                         SetToSeq(st.l_nodes_[c]), FALSE)
                 ELSE st
         IN InvalidateCacheRecursive(after, Tail(todo), force)

(***************************************************************************)
(* Editing.  A call gives [st, outcome]: the sheet it leaves and "ok", the  *)
(* exception it raises, or "NullDeref" when it calls a member function      *)
(* through a null Cell pointer (the process is then lost: the first access  *)
(* to the object's fields faults).                                          *)
(***************************************************************************)
Returned(st) == [st |-> st, outcome |-> "ok"]
Raised(st, what) == [st |-> st, outcome |-> what]

\* cells_.emplace(pos, std::make_unique<Cell>(*this)): an Empty cell with
\* no edges.
Emplace(st, pos) ==
    [st EXCEPT !.cells_[pos] = "cell", !.impl_[pos] = EmptyImpl,
               !.cache_[pos] = nullopt, !.l_nodes_[pos] = {},
               !.r_nodes_[pos] = {}]

\* Variant: r_nodes_ is cleared, the cells it named keep self in l_nodes_.
DropOutgoing_ForwardOnly(st, self) == [st EXCEPT !.r_nodes_[self] = {}]

\* The first loop of Cell::Set: self leaves the l_nodes_ of every cell of
\* its r_nodes_; then r_nodes_.clear().
DropOutgoing(st, self) ==
    [st EXCEPT !.l_nodes_ = [d \in Pos |->
                                IF d \in st.r_nodes_[self]
                                THEN st.l_nodes_[d] \ {self}
                                ELSE st.l_nodes_[d]],
               !.r_nodes_[self] = {}]

RECURSIVE SheetSetCell(_, _, _)
RECURSIVE CellSet(_, _, _)
RECURSIVE UpdateDependencies(_, _, _)

\* Variant: only a cell that had to be created is linked, a cell that exists
\* already gets no edge.
RECURSIVE UpdateDependencies_NewCellsOnly(_, _, _)
UpdateDependencies_NewCellsOnly(st, self, refs) ==
    IF refs = <<>> THEN Returned(st)
    ELSE IF GetCellPtr(st, Head(refs)) # nullptr
    THEN UpdateDependencies_NewCellsOnly(st, self, Tail(refs))
    ELSE LET pos == Head(refs)
             made == SheetSetCell(st, pos, <<>>)
         IN IF made.outcome # "ok" THEN made
            ELSE UpdateDependencies_NewCellsOnly(
                     [made.st EXCEPT !.r_nodes_[self] = @ \cup {pos},
                                     !.l_nodes_[pos] = @ \cup {self}],
                     self, Tail(refs))

\* Cell::UpdateDependencies over the body's references refs, in order.
UpdateDependencies(st, self, refs) ==
    IF refs = <<>> THEN Returned(st)
    ELSE LET pos == Head(refs)
             made == IF GetCellPtr(st, pos) = nullptr
                     THEN SheetSetCell(st, pos, <<>>)
                     ELSE Returned(st)
         IN IF made.outcome # "ok" THEN made
            ELSE UpdateDependencies(
                     [made.st EXCEPT !.r_nodes_[self] = @ \cup {pos},
                                     !.l_nodes_[pos] = @ \cup {self}],
                     self, Tail(refs))

\* Variant: the new body is installed before the cycle check.
CellSet_InstallFirst(st, self, text) ==
    LET made == CreateImpl(text)
    IN IF ~made.ok THEN Raised(st, "FormulaException")
       ELSE LET installed == [st EXCEPT !.impl_[self] = made.impl,
                                        !.cache_[self] = nullopt]
            IN IF WouldIntroduceCircularDependency(st, self, made.impl)
               THEN Raised(installed, "CircularDependencyException")
               ELSE LET linked == UpdateDependencies(DropOutgoing(installed, self),
                                      self, GetReferencedCells(made.impl))
                    IN IF linked.outcome # "ok" THEN linked
                       ELSE Returned(InvalidateCacheRecursive(linked.st, <<self>>, TRUE))

\* Variant: the invalidation that ends Cell::Set is not forced.
CellSet_NoForce(st, self, text) ==
    LET made == CreateImpl(text)
    IN IF ~made.ok THEN Raised(st, "FormulaException")
       ELSE IF WouldIntroduceCircularDependency(st, self, made.impl)
       THEN Raised(st, "CircularDependencyException")
       ELSE LET installed == [st EXCEPT !.impl_[self] = made.impl,
                                        !.cache_[self] = nullopt]
                linked == UpdateDependencies(DropOutgoing(installed, self), self,
                                             GetReferencedCells(made.impl))
            IN IF linked.outcome # "ok" THEN linked
               ELSE Returned(InvalidateCacheRecursive(linked.st, <<self>>, FALSE))

\* Cell::Set.
CellSet(st, self, text) ==
    LET made == CreateImpl(text)
    IN IF ~made.ok THEN Raised(st, "FormulaException")
       ELSE IF WouldIntroduceCircularDependency(st, self, made.impl)
       THEN Raised(st, "CircularDependencyException")
       ELSE LET installed == [st EXCEPT !.impl_[self] = made.impl,
                                        !.cache_[self] = nullopt]
                linked == UpdateDependencies(DropOutgoing(installed, self), self,
                                             GetReferencedCells(made.impl))
            IN IF linked.outcome # "ok" THEN linked
               ELSE Returned(InvalidateCacheRecursive(linked.st, <<self>>, TRUE))

\* Sheet::SetCell.
SheetSetCell(st, pos, text) ==
    IF ~IsValid(pos) THEN Raised(st, "InvalidPositionException")
    ELSE LET found == IF st.cells_[pos] = "none" THEN Emplace(st, pos) ELSE st
         IN IF found.cells_[pos] = "null" THEN Raised(found, "NullDeref")
            ELSE CellSet(found, pos, text)

\* Variant: the outgoing set is tested instead of the incoming set.
IsReferenced_Outgoing(st, c) == st.r_nodes_[c] # {}

\* Cell::IsReferenced.
IsReferenced(st, c) == st.l_nodes_[c] # {}

\* cell->second.reset(): the Cell is destroyed, the key stays.
Reset(st, pos) ==
    [st EXCEPT !.cells_[pos] = "null", !.impl_[pos] = EmptyImpl,
               !.cache_[pos] = nullopt, !.l_nodes_[pos] = {},
               !.r_nodes_[pos] = {}]

\* Variant: the cleared cell is dropped whether or not other cells read it.
SheetClearCell_DropReferenced(st, pos) ==
    IF ~IsValid(pos) THEN Raised(st, "InvalidPositionException")
    ELSE IF st.cells_[pos] # "cell" THEN Returned(st)
    ELSE LET cleared == CellSet(st, pos, <<>>)
         IN IF cleared.outcome # "ok" THEN cleared
            ELSE Returned(Reset(cleared.st, pos))

\* Variant: an invalid position is ignored instead of rejected.
SheetClearCell_IgnoreInvalid(st, pos) ==
    IF ~IsValid(pos) \/ st.cells_[pos] # "cell" THEN Returned(st)
    ELSE LET cleared == CellSet(st, pos, <<>>)
         IN IF cleared.outcome # "ok" THEN cleared
            ELSE IF ~IsReferenced(cleared.st, pos)
            THEN Returned(Reset(cleared.st, pos))
            ELSE cleared

\* Variant: a referenced cell is left as it is, only an unreferenced cell
\* is cleared and dropped.
SheetClearCell_SkipReferenced(st, pos) ==
    IF ~IsValid(pos) THEN Raised(st, "InvalidPositionException")
    ELSE IF st.cells_[pos] # "cell" \/ IsReferenced(st, pos) THEN Returned(st)
    ELSE LET cleared == CellSet(st, pos, <<>>)
         IN IF cleared.outcome # "ok" THEN cleared
            ELSE Returned(Reset(cleared.st, pos))

\* Sheet::ClearCell; Cell::Clear is Set("").
SheetClearCell(st, pos) ==
    IF ~IsValid(pos) THEN Raised(st, "InvalidPositionException")
    ELSE IF st.cells_[pos] # "cell" THEN Returned(st)
    ELSE LET cleared == CellSet(st, pos, <<>>)
         IN IF cleared.outcome # "ok" THEN cleared
            ELSE IF ~IsReferenced(cleared.st, pos)
            THEN Returned(Reset(cleared.st, pos))
            ELSE cleared

\* Cell::GetText.
CellGetText(st, c) == GetText(st.impl_[c])

\* The least upper bound of a set of naturals and 0.
Max(S) == CHOOSE m \in S \cup {0} : \A x \in S : x <= m

\* Variant: every cell that exists counts, whatever its text.
GetPrintableSize_AnyCell(st) ==
    [rows |-> Max({pos.row + 1 : pos \in {p \in Pos : st.cells_[p] = "cell"}}),
     cols |-> Max({pos.col + 1 : pos \in {p \in Pos : st.cells_[p] = "cell"}})]

\* Sheet::GetPrintableSize: the loop over the keys of cells_, which skips a
\* key whose pointer is null and a cell whose text is empty.
GetPrintableSize(st) ==
    LET counted == {p \in Pos : /\ st.cells_[p] # "none"
                                /\ st.cells_[p] # "null"
                                /\ CellGetText(st, p) # <<>>}
    IN [rows |-> Max({pos.row + 1 : pos \in counted}),
        cols |-> Max({pos.col + 1 : pos \in counted})]

\* Sheet::GetCell, both overloads: [st, outcome, cell] with the Cell pointer
\* GetCellPtr gives once ValidatePosition has passed.
SheetGetCell(st, pos) ==
    IF ~IsValid(pos)
    THEN [st |-> st, outcome |-> "InvalidPositionException", cell |-> nullptr]
    ELSE [st |-> st, outcome |-> "ok", cell |-> GetCellPtr(st, pos)]

(***************************************************************************)
(* Evaluation.  A step gives [st, v, thrown]: the sheet with the caches it *)
(* filled, the value, and whether the value is a FormulaError that left    *)
(* the step as an exception.                                               *)
(***************************************************************************)
\* Formula::ConvertStringToDouble, for strings of digits and strings with
\* no digit prefix read by operator>>: the number, or FormulaError Value.
ConvertStringToDouble(value) ==
    IF value = <<>> THEN DoubleValue(0)
    ELSE IF \A i \in 1..Len(value) : value[i] \in Digits
    THEN DoubleValue(DecimalValue(value, 1, Len(value) + 1, 0))
    ELSE ErrorValue("Value")

\* A binary operation of the tree on two doubles; a division by zero is
\* FormulaError Arithmetic.  (Quotients are taken on integers: the formulas
\* of Texts divide by the literal 0 only.)
BinaryOp(op, l, r) ==
    CASE op = "+" -> DoubleValue(l + r)
      [] op = "-" -> DoubleValue(l - r)
      [] op = "*" -> DoubleValue(l * r)
      [] op = "/" -> IF r = 0 THEN ErrorValue("Arithmetic")
                     ELSE DoubleValue(l \div r)

\* TextImpl::GetValue.
TextGetValue(text) ==
    IF text[1] = ESCAPE_SIGN THEN StringValue(SubSeq(text, 2, Len(text)))
    ELSE StringValue(text)

\* A value a step returns; a FormulaError a step throws.
Gives(st, v) == [st |-> st, v |-> v, thrown |-> FALSE]
Throws(st, v) == [st |-> st, v |-> v, thrown |-> TRUE]

RECURSIVE Execute(_, _)
RECURSIVE EvaluateCell(_, _)
RECURSIVE FormulaEvaluate(_, _)
RECURSIVE CellGetValue(_, _)

\* FormulaAST::Execute: left operand first; a FormulaError thrown by the
\* lookup or by an operation ends the evaluation.
Execute(st, expr) ==
    IF expr.op = "num" THEN Gives(st, DoubleValue(expr.val))
    ELSE IF expr.op = "cell" THEN EvaluateCell(st, expr.pos)
    ELSE LET l == Execute(st, expr.lhs)
         IN IF l.thrown THEN l
            ELSE LET r == Execute(l.st, expr.rhs)
                 IN IF r.thrown THEN r
                    ELSE IF BinaryOp(expr.op, l.v.d, r.v.d).k = "error"
                    THEN Throws(r.st, BinaryOp(expr.op, l.v.d, r.v.d))
                    ELSE Gives(r.st, BinaryOp(expr.op, l.v.d, r.v.d))

\* Formula::EvaluateCell.  (The code asks cell->GetValue() again for each
\* alternative it tests; the calls after the first find the caches filled
\* and give the same value.)
EvaluateCell(st, p) ==
    IF ~IsValid(p) THEN Throws(st, ErrorValue("Ref"))
    ELSE IF GetCellPtr(st, p) = nullptr THEN Gives(st, DoubleValue(0))
    ELSE LET got == CellGetValue(st, p)
         IN IF got.thrown \/ got.v.k = "double" THEN got
            ELSE IF got.v.k = "string" THEN
                IF ConvertStringToDouble(got.v.s).k = "error"
                THEN Throws(got.st, ConvertStringToDouble(got.v.s))
                ELSE Gives(got.st, ConvertStringToDouble(got.v.s))
            ELSE Throws(got.st, got.v)

\* Variant: the FormulaError is not caught.
FormulaEvaluate_NoCatch(st, expr) == Execute(st, expr)

\* Formula::Evaluate: a FormulaError thrown by Execute is caught and
\* returned as the value.
FormulaEvaluate(st, expr) ==
    LET done == Execute(st, expr) IN Gives(done.st, done.v)

\* Cell::GetValue: EmptyImpl, TextImpl and FormulaImpl::GetValue.  The
\* formula body fills an empty cache slot, then evaluates once more and
\* returns that second result.
CellGetValue(st, c) ==
    LET impl == st.impl_[c]
    IN IF impl.kind = "Empty" THEN Gives(st, StringValue(<<>>))
       ELSE IF impl.kind = "Text" THEN Gives(st, TextGetValue(impl.text))
       ELSE IF st.cache_[c] # nullopt THEN FormulaEvaluate(st, impl.expr)
       ELSE LET first == FormulaEvaluate(st, impl.expr)
            IN IF first.thrown THEN first
               ELSE FormulaEvaluate([first.st EXCEPT !.cache_[c] = first.v],
                                    impl.expr)

(***************************************************************************)
(* The state machine: a client calling SetCell, ClearCell and              *)
(* GetCell(pos)->GetValue() on one sheet.                                  *)
(***************************************************************************)
VARIABLES cells_, impl_, cache_, l_nodes_, r_nodes_,
          call,      \* the last call: [op, pos]
          outcome,   \* how it ended
          ret,       \* what the last GetValue returned
          content,   \* per position, the text of the last edit that returned
          input,     \* the text a run on drawn inputs passes to SetCell;
                     \* in a run by steps, the text of the edit under way
          pc,        \* in a run by steps, where the edit under way stands:
                     \* "idle" (no edit), "check", "invalidate"
          new_body,  \* the body Cell::Set built from its text
          to_visit,  \* the stack of the cycle check (its top is the last)
          visited,   \* the visited set of the cycle check
          pending    \* the calls of InvalidateCacheRecursive still to make,
                     \* in the order the recursion makes them

locals == <<pc, new_body, to_visit, visited, pending>>

vars == <<cells_, impl_, cache_, l_nodes_, r_nodes_, call, outcome, ret, content,
          input, pc, new_body, to_visit, visited, pending>>

sheet == [cells_ |-> cells_, impl_ |-> impl_, cache_ |-> cache_,
          l_nodes_ |-> l_nodes_, r_nodes_ |-> r_nodes_]

\* The positions a client passes: those of Pos and an invalid one.
Args == Pos \cup {NONE}

Init ==
    /\ cells_ = [p \in Pos |-> "none"]
    /\ impl_ = [p \in Pos |-> EmptyImpl]
    /\ cache_ = [p \in Pos |-> nullopt]
    /\ l_nodes_ = [p \in Pos |-> {}]
    /\ r_nodes_ = [p \in Pos |-> {}]
    /\ call = [op |-> "CreateSheet", pos |-> NONE]
    /\ outcome = "ok"
    /\ ret = nullopt
    /\ content = [p \in Pos |-> <<>>]
    /\ input = <<>>
    /\ pc = "idle"
    /\ new_body = EmptyImpl
    /\ to_visit = <<>>
    /\ visited = {}
    /\ pending = <<>>

Running == outcome # "NullDeref"

Becomes(st) ==
    /\ cells_' = st.cells_
    /\ impl_' = st.impl_
    /\ cache_' = st.cache_
    /\ l_nodes_' = st.l_nodes_
    /\ r_nodes_' = st.r_nodes_

SetCell(pos, text) ==
    /\ Running
    /\ \E done \in {SheetSetCell(sheet, pos, text)} :
          /\ Becomes(done.st)
          /\ outcome' = done.outcome
          /\ content' = IF done.outcome = "ok"
                        THEN [content EXCEPT ![pos] = text] ELSE content
    /\ call' = [op |-> "SetCell", pos |-> pos]
    /\ ret' = nullopt
    /\ UNCHANGED <<input, locals>>

ClearCell(pos) ==
    /\ Running
    /\ \E done \in {SheetClearCell(sheet, pos)} :
          /\ Becomes(done.st)
          /\ outcome' = done.outcome
          /\ content' = IF done.outcome = "ok"
                        THEN [content EXCEPT ![pos] = <<>>] ELSE content
    /\ call' = [op |-> "ClearCell", pos |-> pos]
    /\ ret' = nullopt
    /\ UNCHANGED <<input, locals>>

\* sheet.GetCell(pos)->GetValue(): GetCell raises, or gives a cell that
\* exists, whose value is then read.
GetValue(pos) ==
    /\ Running
    /\ \E found \in {SheetGetCell(sheet, pos)} :
          IF found.outcome # "ok"
          THEN /\ Becomes(found.st)
               /\ call' = [op |-> "GetCell", pos |-> pos]
               /\ outcome' = found.outcome
               /\ ret' = nullopt
          ELSE /\ found.cell # nullptr
               /\ \E got \in {CellGetValue(sheet, found.cell)} :
                     /\ Becomes(got.st)
                     /\ ret' = IF got.thrown THEN nullopt ELSE got.v
                     /\ outcome' = IF got.thrown THEN "FormulaError" ELSE "ok"
               /\ call' = [op |-> "GetValue", pos |-> pos]
    /\ UNCHANGED <<content, input, locals>>

Next ==
    \/ \E pos \in Args, text \in Texts : SetCell(pos, text)
    \/ \E pos \in Args : ClearCell(pos)
    \/ \E pos \in Args : GetValue(pos)

Spec == Init /\ [][Next]_vars

(***************************************************************************)
(* Runs on drawn inputs: a sheet is created, one text of Inputs is set at  *)
(* one position and the cell is read.  Inputs holds every formula that     *)
(* adds up to MaxRefs references, each to a position of Args, and every    *)
(* text of up to MaxLen characters of Alphabet.                            *)
(***************************************************************************)
MaxRefs == 3
MaxLen == 3

Alphabet == {FORMULA_SIGN, ESCAPE_SIGN, "1", "x"}

\* How a formula writes a reference to a position of Args: the column
\* letter and the 1-based row; the one invalid position as a row out of range.
ReferenceText(p) ==
    IF IsValid(p) THEN PositionToString(p)
    ELSE <<"A">> \o DecimalText(MAX_ROWS + 1)

\* ref + ref + ... for a sequence of positions.
RECURSIVE SumText(_)
SumText(refs) ==
    IF Len(refs) = 1 THEN ReferenceText(refs[1])
    ELSE SumText(SubSeq(refs, 1, Len(refs) - 1)) \o <<"+">>
             \o ReferenceText(refs[Len(refs)])

RefTexts ==
    {<<FORMULA_SIGN>> \o SumText(refs) :
        refs \in UNION {[1..n -> Args] : n \in 1..MaxRefs}}

ShortTexts == UNION {[1..n -> Alphabet] : n \in 0..MaxLen}

Inputs == RefTexts \cup ShortTexts

InputInit ==
    /\ cells_ = [p \in Pos |-> "none"]
    /\ impl_ = [p \in Pos |-> EmptyImpl]
    /\ cache_ = [p \in Pos |-> nullopt]
    /\ l_nodes_ = [p \in Pos |-> {}]
    /\ r_nodes_ = [p \in Pos |-> {}]
    /\ call = [op |-> "CreateSheet", pos |-> NONE]
    /\ outcome = "ok"
    /\ ret = nullopt
    /\ content = [p \in Pos |-> <<>>]
    /\ input \in Inputs
    /\ pc = "idle"
    /\ new_body = EmptyImpl
    /\ to_visit = <<>>
    /\ visited = {}
    /\ pending = <<>>

\* The first call on the new sheet: SetCell(pos, input).
SetCellInput(pos) ==
    /\ call.op = "CreateSheet"
    /\ SetCell(pos, input)

InputNext ==
    \/ \E pos \in Pos : SetCellInput(pos)
    \/ \E pos \in Pos : GetValue(pos)

InputSpec == InputInit /\ [][InputNext]_vars

(***************************************************************************)
(* Properties.                                                             *)
(***************************************************************************)
Edits == {"SetCell", "ClearCell"}
Exceptions == {"FormulaException", "CircularDependencyException"}

\* The cells reached from the cells of S along the edge map E (S included).
RECURSIVE Closure(_, _)
Closure(E, S) ==
    IF (UNION {E[x] : x \in S}) \subseteq S THEN S
    ELSE Closure(E, S \cup UNION {E[x] : x \in S})

\* The cells c reaches along one or more edges of E.
Reaches(E, c) == Closure(E, E[c])

\* The references of the formula a text holds ({} when it holds none).
RefsOfText(text) ==
    LET refs == GetReferencedCells(CreateImpl(text).impl)
    IN {refs[i] : i \in 1..Len(refs)}

RefsOfCell(c) ==
    LET refs == GetReferencedCells(impl_[c])
    IN {refs[i] : i \in 1..Len(refs)}

(***************************************************************************)
(* Runs by steps: SetCell and ClearCell advance one iteration of the cycle *)
(* check's loop, and one call of InvalidateCacheRecursive, at a time.  The *)
(* loops over a body's references (the first loop of Cell::Set,            *)
(* UpdateDependencies) run over a finite vector and are taken in one step. *)
(***************************************************************************)
\* The texts of the edits: formulas that build chains, a cell read along
\* two paths, and cycles.
StepTexts ==
    { <<>>,
      <<"=", "A", "1">>,
      <<"=", "A", "1", "+", "B", "1">>,
      <<"=", "C", "1">> }

\* Variant: the top of the stack is read and not popped.
CycleSearchStep_NoPop(st, referenced, stack, seen) ==
    LET current == stack[Len(stack)]
    IN [found |-> current \in referenced,
        to_visit |-> stack \o SetToSeq(st.l_nodes_[current] \ (seen \cup {current})),
        visited |-> seen \cup {current}]

\* One iteration of the while loop of Cell::WouldIntroduceCircularDependency
\* on a stack that is not empty: [found, to_visit, visited].
CycleSearchStep(st, referenced, stack, seen) ==
    LET current == stack[Len(stack)]
        rest == SubSeq(stack, 1, Len(stack) - 1)
    IN [found |-> current \in referenced,
        to_visit |-> rest \o SetToSeq(st.l_nodes_[current] \ (seen \cup {current})),
        visited |-> seen \cup {current}]

\* One call of Cell::InvalidateCacheRecursive, the first of calls, without
\* the calls it makes: these are put in front of the others.
InvalidateCall(st, calls) ==
    IF IsCacheValid(st, Head(calls).cell) \/ Head(calls).force
    THEN [st |-> [st EXCEPT !.cache_[Head(calls).cell] = nullopt],
          pending |->
              [i \in 1..Cardinality(st.l_nodes_[Head(calls).cell]) |->
                  [cell |-> SetToSeq(st.l_nodes_[Head(calls).cell])[i],
                   force |-> FALSE]] \o Tail(calls)]
    ELSE [st |-> st, pending |-> Tail(calls)]

\* The edit of pos with text ends: it returns ("ok") or raises.
Finish(st, what, pos, text) ==
    /\ Becomes(st)
    /\ outcome' = what
    /\ content' = IF what = "ok" THEN [content EXCEPT ![pos] = text] ELSE content
    /\ pc' = "idle"
    /\ new_body' = EmptyImpl
    /\ to_visit' = <<>>
    /\ visited' = {}
    /\ pending' = <<>>

\* Cell::Set once the cycle check has returned false: the body is installed,
\* the edges are replaced, and InvalidateCacheRecursive(true) is called.
Install(st, self, text, body) ==
    \E linked \in {UpdateDependencies(
                      DropOutgoing([st EXCEPT !.impl_[self] = body,
                                              !.cache_[self] = nullopt], self),
                      self, GetReferencedCells(body))} :
        IF linked.outcome # "ok"
        THEN Finish(linked.st, linked.outcome, self, text)
        ELSE /\ Becomes(linked.st)
             /\ pc' = "invalidate"
             /\ new_body' = EmptyImpl
             /\ pending' = <<[cell |-> self, force |-> TRUE]>>
             /\ to_visit' = <<>>
             /\ visited' = {}
             /\ outcome' = "running"
             /\ UNCHANGED content

\* Cell::Set up to the loop of the cycle check.
EnterCellSet(st, self, text) ==
    \E made \in {CreateImpl(text)} :
        IF ~made.ok THEN Finish(st, "FormulaException", self, text)
        ELSE IF GetReferencedCells(made.impl) = <<>>
        THEN Install(st, self, text, made.impl)
        ELSE /\ Becomes(st)
             /\ pc' = "check"
             /\ new_body' = made.impl
             /\ to_visit' = <<self>>
             /\ visited' = {}
             /\ pending' = <<>>
             /\ outcome' = "running"
             /\ UNCHANGED content

\* Sheet::SetCell is called.
BeginSetCell(pos, text) ==
    /\ pc = "idle"
    /\ Running
    /\ call' = [op |-> "SetCell", pos |-> pos]
    /\ input' = text
    /\ ret' = nullopt
    /\ IF ~IsValid(pos) THEN Finish(sheet, "InvalidPositionException", pos, text)
       ELSE IF cells_[pos] = "null"
       THEN Finish(sheet, "NullDeref", pos, text)
       ELSE IF cells_[pos] = "none"
       THEN EnterCellSet(Emplace(sheet, pos), pos, text)
       ELSE EnterCellSet(sheet, pos, text)

\* Sheet::ClearCell is called.
BeginClearCell(pos) ==
    /\ pc = "idle"
    /\ Running
    /\ call' = [op |-> "ClearCell", pos |-> pos]
    /\ input' = <<>>
    /\ ret' = nullopt
    /\ IF ~IsValid(pos) THEN Finish(sheet, "InvalidPositionException", pos, <<>>)
       ELSE IF cells_[pos] # "cell" THEN Finish(sheet, "ok", pos, <<>>)
       ELSE EnterCellSet(sheet, pos, <<>>)

\* The cells at the positions a body references (a null pointer for a
\* position that has none).
Referenced(st, body) ==
    {GetCellPtr(st, GetReferencedCells(body)[i]) :
        i \in 1..Len(GetReferencedCells(body))}

\* The cycle check goes on: the stack is empty and the check returns false,
\* or one iteration runs and finds the cycle or not.
CheckStep ==
    /\ pc = "check"
    /\ UNCHANGED <<call, input, ret>>
    /\ IF to_visit = <<>> THEN Install(sheet, call.pos, input, new_body)
       ELSE \E it \in {CycleSearchStep(sheet, Referenced(sheet, new_body),
                                       to_visit, visited)} :
                IF it.found
                THEN Finish(sheet, "CircularDependencyException", call.pos, input)
                ELSE /\ to_visit' = it.to_visit
                     /\ visited' = it.visited
                     /\ UNCHANGED <<cells_, impl_, cache_, l_nodes_, r_nodes_,
                                    pc, new_body, pending, outcome, content>>

\* The invalidation goes on: the next call runs, or none is left and
\* Cell::Set returns; ClearCell then drops the cell if no cell reads it.
InvalidateStep ==
    /\ pc = "invalidate"
    /\ UNCHANGED <<call, input, ret>>
    /\ IF pending = <<>> THEN
           IF call.op = "ClearCell" /\ ~IsReferenced(sheet, call.pos)
           THEN Finish(Reset(sheet, call.pos), "ok", call.pos, input)
           ELSE Finish(sheet, "ok", call.pos, input)
       ELSE \E it \in {InvalidateCall(sheet, pending)} :
                /\ Becomes(it.st)
                /\ pending' = it.pending
                /\ UNCHANGED <<pc, new_body, to_visit, visited, outcome, content>>

\* GetCell(pos)->GetValue() between two edits.
ReadValue(pos) ==
    /\ pc = "idle"
    /\ GetValue(pos)

StepNext ==
    \/ \E pos \in Pos, text \in StepTexts : BeginSetCell(pos, text)
    \/ \E pos \in Pos : BeginClearCell(pos)
    \/ CheckStep
    \/ InvalidateStep
    \/ \E pos \in Pos : ReadValue(pos)

\* The code runs on one thread: a call under way takes its next step.
StepSpec ==
    Init /\ [][StepNext]_vars /\ WF_vars(CheckStep) /\ WF_vars(InvalidateStep)

\* C1: the graph of outgoing edges (r_nodes_) has no cycle and no self-loop,
\* whatever calls were made.
C1_Acyclic == \A c \in Pos : c \notin Reaches(r_nodes_, c)

\* C1, its case: a cycle-closing SetCell was just rejected on a sheet that
\* holds a chain of two edges.
C1_Witness ==
    /\ call.op = "SetCell"
    /\ outcome = "CircularDependencyException"
    /\ \E a, b, c \in Pos : b \in r_nodes_[a] /\ c \in r_nodes_[b]

\* C2: SetCell(p, formula) raises CircularDependencyException exactly when a
\* valid reference of the formula is p itself or a cell that reaches p along
\* outgoing edges.
C2_CycleIff ==
    [][\A p \in Pos, t \in Texts :
          (SetCell(p, t) /\ CreateImpl(t).ok /\ CreateImpl(t).impl.kind = "Formula")
          => ((outcome' = "CircularDependencyException")
              <=> \E r \in RefsOfText(t) : r = p \/ p \in Reaches(r_nodes_, r))]_vars

\* C2 with the calls on a slot whose cell was dropped left out: the only
\* calls on which C2_CycleIff fails.
C2_CycleIffOnCell ==
    [][\A p \in Pos, t \in Texts :
          (SetCell(p, t) /\ cells_[p] # "null"
           /\ CreateImpl(t).ok /\ CreateImpl(t).impl.kind = "Formula")
          => ((outcome' = "CircularDependencyException")
              <=> \E r \in RefsOfText(t) : r = p \/ p \in Reaches(r_nodes_, r))]_vars

\* C3: a SetCell that raises FormulaException or CircularDependencyException
\* leaves every cell that existed before it with the same body, the same
\* outgoing and incoming sets and the same cache.
C3_AtomicOnFailure ==
    [][(call'.op = "SetCell" /\ outcome' \in Exceptions)
       => \A q \in Pos :
              cells_[q] = "cell"
              => /\ cells_'[q] = "cell"
                 /\ impl_'[q] = impl_[q]
                 /\ r_nodes_'[q] = r_nodes_[q]
                 /\ l_nodes_'[q] = l_nodes_[q]
                 /\ cache_'[q] = cache_[q]]_vars

\* C3, its case: a SetCell on a formula cell that other cells read was
\* rejected as cyclic while some cell holds a cached value.
C3_Witness ==
    /\ call.op = "SetCell"
    /\ outcome = "CircularDependencyException"
    /\ cells_[call.pos] = "cell"
    /\ impl_[call.pos].kind = "Formula"
    /\ l_nodes_[call.pos] # {}
    /\ \E q \in Pos : cache_[q] # nullopt

\* C4: a SetCell that raises on a position that had no cell leaves the
\* position without a cell.
C4_NoCellAfterFailure ==
    [][(call'.op = "SetCell" /\ outcome' \in Exceptions
        /\ cells_[call'.pos] = "none")
       => cells_'[call'.pos] = "none"]_vars

\* C5: for all cells c and d of the sheet, d is in c's outgoing set exactly
\* when c is in d's incoming set.
C5_EdgeMirror ==
    \A c, d \in Pos :
        (cells_[c] = "cell" /\ cells_[d] = "cell")
        => (d \in r_nodes_[c] <=> c \in l_nodes_[d])

\* C5, its case: an edit returned on a sheet where a formula reads a Text
\* cell and a third cell is Empty.
C5_Witness ==
    /\ call.op \in Edits
    /\ outcome = "ok"
    /\ \E c, d \in Pos :
           /\ d \in r_nodes_[c]
           /\ impl_[d].kind = "Text"
           /\ \E e \in Pos \ {c, d} : cells_[e] = "cell" /\ impl_[e].kind = "Empty"

\* C6: between calls, every formula cell whose cache slot is populated
\* caches the value a fresh evaluation of its formula gives.  (A call that
\* dereferenced null ends the process inside Cell::Set, before the
\* invalidation; no call observes the sheet it leaves.)
C6_CacheCorrect ==
    Running =>
        \A c \in Pos :
            (cells_[c] = "cell" /\ impl_[c].kind = "Formula" /\ cache_[c] # nullopt)
            => cache_[c] = Execute(sheet, impl_[c].expr).v

\* C6, its case: an edit returned and a formula cell still holds a cached
\* value while another formula cell holds none.
C6_Witness ==
    /\ call.op \in Edits
    /\ outcome = "ok"
    /\ \E c, d \in Pos :
           /\ impl_[c].kind = "Formula" /\ cache_[c] # nullopt
           /\ impl_[d].kind = "Formula" /\ cache_[d] = nullopt

\* C7: after SetCell(p, ...) or ClearCell(p) returns normally, p's cell and
\* every cell that reaches p along outgoing edges hold no cached value.
C7_AllDependentsInvalidated ==
    (call.op \in Edits /\ outcome = "ok")
    => \A c \in Closure(l_nodes_, {call.pos}) : cache_[c] = nullopt

\* The cells the invalidation after an edit of p visits: the cells that read
\* p, and the cells that read a visited cell whose cache was valid before
\* the edit.
RECURSIVE Visited(_)
Visited(S) ==
    LET more == UNION {l_nodes_[x] : x \in {y \in S : IsCacheValid(sheet, y)}}
    IN IF more \subseteq S THEN S ELSE Visited(S \cup more)

\* C7 as amended: after SetCell(p, ...) or ClearCell(p) returns normally,
\* p's cell, every cell that reads p, and every cell that reaches p through
\* cells that each held a valid cache before the edit, hold no cached value.
C7_CachedChainInvalidated ==
    [][(call'.op \in Edits /\ outcome' = "ok")
       => \A c \in {call'.pos} \cup Visited(l_nodes_[call'.pos]) :
              cache_'[c] = nullopt]_vars

\* C7, its case: an edit of a cell returned, a formula reads that cell
\* through another formula, and neither holds a cached value.
C7_Witness ==
    /\ call.op \in Edits
    /\ outcome = "ok"
    /\ \E c \in l_nodes_[call.pos] :
           /\ cache_[c] = nullopt
           /\ \E d \in l_nodes_[c] : d \notin l_nodes_[call.pos] /\ cache_[d] = nullopt

\* The sheet that holds, at each position, the body of the text that the
\* last edit of the position installed, and no cached value.
SheetOfContent ==
    [cells_ |-> [p \in Pos |-> IF content[p] = <<>> THEN "none" ELSE "cell"],
     impl_ |-> [p \in Pos |-> CreateImpl(content[p]).impl],
     cache_ |-> [p \in Pos |-> nullopt],
     l_nodes_ |-> [p \in Pos |-> {}],
     r_nodes_ |-> [p \in Pos |-> {}]]

\* C8: a GetValue returns the evaluation of the cell against the contents
\* that the most recent edits of all positions installed.
C8_ObservesLastEdit ==
    call.op = "GetValue" => ret = CellGetValue(SheetOfContent, call.pos).v

\* C8, its case: A1 = B1+1 is read as 21 after B1 was set to 20.
C8_Witness ==
    /\ call = [op |-> "GetValue", pos |-> A1]
    /\ content[A1] = <<"=", "B", "1", "+", "1">>
    /\ content[B1] = <<"2", "0">>
    /\ ret = DoubleValue(21)

\* C9: SetCell never operates on a missing (null) cell object at its own
\* position: a position whose cell ClearCell dropped takes a SetCell like a
\* position never used.
C9_SetCellAfterDrop ==
    ~(call.op = "SetCell" /\ call.pos \in Pos /\ outcome = "NullDeref"
      /\ cells_[call.pos] = "null")

\* C10: a SetCell(p, formula) that passes the cycle check returns normally,
\* and every valid position q the formula references then has a cell that
\* is in p's outgoing set and has p in its incoming set.
C10_ReferencesMaterialized ==
    (call.op = "SetCell" /\ call.pos \in Pos /\ cells_[call.pos] = "cell"
     /\ outcome \notin Exceptions)
    => /\ outcome = "ok"
       /\ \A q \in RefsOfCell(call.pos) :
              /\ cells_[q] = "cell"
              /\ q \in r_nodes_[call.pos]
              /\ call.pos \in l_nodes_[q]

\* C11: when an edit of p that returns takes the last incoming edge away
\* from an Empty cell q that holds no text of the client (it exists because
\* p's formula referenced it), GetCell(q) is absent after the call.
C11_OrphanDropped ==
    [][\A q \in Pos :
          (/\ call'.op \in Edits /\ outcome' = "ok" /\ call'.pos \in Pos
           /\ q # call'.pos
           /\ cells_[q] = "cell" /\ impl_[q].kind = "Empty" /\ content[q] = <<>>
           /\ l_nodes_[q] = {call'.pos}
           /\ call'.pos \notin l_nodes_'[q])
          => GetCellPtr([cells_ |-> cells_'], q) = nullptr]_vars

\* Cell::GetReferencedCells.
CellGetReferencedCells(st, c) == GetReferencedCells(st.impl_[c])

\* C12: for every formula, whatever the order and the multiplicity of its
\* references, GetReferencedCells() of the cell that holds it contains only
\* valid positions and no position twice.
C12_RefsValidDistinct ==
    \A c \in Pos :
        cells_[c] = "cell"
        => LET refs == CellGetReferencedCells(sheet, c)
           IN /\ \A i \in 1..Len(refs) : IsValid(refs[i])
              /\ \A i, j \in 1..Len(refs) : i # j => refs[i] # refs[j]

\* C13: SetCell, GetCell and ClearCell raise InvalidPositionException when
\* the position is invalid, and the set of cells, the bodies, the edge sets
\* and the caches are then as before the call.
C13_InvalidPosition ==
    [][(call'.op \in {"SetCell", "GetCell", "GetValue", "ClearCell"}
        /\ ~IsValid(call'.pos))
       => /\ outcome' = "InvalidPositionException"
          /\ UNCHANGED <<cells_, impl_, cache_, l_nodes_, r_nodes_>>]_vars

\* C13, its case: ClearCell was called with an invalid position on a sheet
\* that holds a formula cell with a cached value.
C13_Witness ==
    /\ call.op = "ClearCell"
    /\ ~IsValid(call.pos)
    /\ outcome = "InvalidPositionException"
    /\ \E c \in Pos : cells_[c] = "cell" /\ r_nodes_[c] # {} /\ cache_[c] # nullopt

\* The Size of the smallest rectangle anchored at (0, 0) that holds the
\* positions of S.
BoundingSize(S) ==
    [rows |-> IF S = {} THEN 0
              ELSE CHOOSE n \in {p.row + 1 : p \in S} : \A p \in S : p.row < n,
     cols |-> IF S = {} THEN 0
              ELSE CHOOSE n \in {p.col + 1 : p \in S} : \A p \in S : p.col < n]

\* C14: between calls GetPrintableSize() is (max row + 1, max col + 1) over
\* exactly the cells whose GetText() is not empty, which are the cells the
\* client's last edit left with a text; (0, 0) when there is none.  Cells
\* that are Empty because referenced, cleared but kept, or dropped add
\* nothing.
C14_PrintableSize ==
    Running =>
        /\ GetPrintableSize(sheet)
               = BoundingSize({p \in Pos : /\ GetCellPtr(sheet, p) # nullptr
                                          /\ CellGetText(sheet, p) # <<>>})
        /\ GetPrintableSize(sheet) = BoundingSize({p \in Pos : content[p] # <<>>})

\* C14, its case: a text lies left of an Empty cell that a formula reads,
\* and a cell was dropped.
C14_Witness ==
    /\ Running
    /\ GetPrintableSize(sheet).cols >= 1
    /\ \E q \in Pos : /\ cells_[q] = "cell" /\ impl_[q].kind = "Empty"
                      /\ l_nodes_[q] # {}
                      /\ q.col >= GetPrintableSize(sheet).cols
    /\ \E d \in Pos : cells_[d] = "null"

\* Whether a string is a number written completely in digits.
IsNumberText(s) == s # <<>> /\ \A i \in 1..Len(s) : s[i] \in Digits

\* What the claim says a reference to p resolves to, from the value of
\* the cell at p.
Resolved(p) ==
    IF ~IsValid(p) THEN ErrorValue("Ref")
    ELSE IF cells_[p] # "cell" THEN DoubleValue(0)
    ELSE LET v == CellGetValue(sheet, p).v
         IN CASE v.k = "double" -> DoubleValue(v.d)
              [] v.k = "string" ->
                    IF v.s = <<>> THEN DoubleValue(0)
                    ELSE IF IsNumberText(v.s)
                    THEN DoubleValue(DecimalValue(v.s, 1, Len(v.s) + 1, 0))
                    ELSE ErrorValue("Value")
              [] v.k = "error" -> ErrorValue(v.e)

\* C15: between calls, resolving a reference to p gives the Ref error if p
\* is invalid, 0 if there is no cell at p, the cell's double, the number a
\* string value writes (0 for the empty string), the Value error for any
\* other string, and the cell's own FormulaError; the error is thrown only
\* inside the evaluation: a cell's GetValue returns it as its value and
\* raises nothing.
C15_ReferenceValue ==
    Running =>
        /\ \A p \in Args :
               /\ EvaluateCell(sheet, p).v = Resolved(p)
               /\ EvaluateCell(sheet, p).thrown <=> Resolved(p).k = "error"
        /\ \A c \in Pos : cells_[c] = "cell" => ~CellGetValue(sheet, c).thrown
        /\ call.op = "GetValue" => outcome = "ok"

\* C15, its case: GetValue returned a Value error that a formula cell took
\* over from the formula cell it reads, which reads a text that is no
\* number.
C15_Witness ==
    /\ call.op = "GetValue"
    /\ ret = ErrorValue("Value")
    /\ \E p \in r_nodes_[call.pos] :
           /\ impl_[p].kind = "Formula"
           /\ \E t \in r_nodes_[p] : impl_[t].kind = "Text"

\* The valid positions among those the tree of a formula body lists.
ValidPositionsOf(impl) ==
    {impl.cells[i] : i \in {j \in 1..Len(impl.cells) : IsValid(impl.cells[j])}}

\* C16: between calls, the outgoing set of a formula cell is exactly the set
\* of cells at the valid positions its formula references, each of them a
\* cell of the sheet; the outgoing set of an Empty or Text cell is empty;
\* an invalid position is in no outgoing set.
C16_OutgoingIsReferences ==
    Running =>
        \A c \in Pos :
            cells_[c] = "cell"
            => /\ impl_[c].kind = "Formula"
                  => /\ r_nodes_[c] = ValidPositionsOf(impl_[c])
                     /\ \A d \in r_nodes_[c] : cells_[d] = "cell"
               /\ impl_[c].kind # "Formula" => r_nodes_[c] = {}
               /\ \A d \in r_nodes_[c] : IsValid(d)

\* C16, its case: an edit returned on a sheet where a formula that names an
\* invalid and a valid position has one outgoing edge, and a cell that
\* other cells read holds a text.
C16_Witness ==
    /\ call.op \in Edits
    /\ outcome = "ok"
    /\ \E c \in Pos :
           /\ impl_[c].kind = "Formula"
           /\ \E i \in 1..Len(impl_[c].cells) : ~IsValid(impl_[c].cells[i])
           /\ Cardinality(r_nodes_[c]) = 1
    /\ \E t \in Pos : impl_[t].kind = "Text" /\ l_nodes_[t] # {}

\* The body the claim gives a text.
BodyOf(text) ==
    IF text = <<>> THEN "Empty"
    ELSE IF Len(text) >= 2 /\ text[1] = "=" THEN "Formula"
    ELSE "Text"

\* A text without its leading apostrophe, if it has one.
Unescaped(text) == IF text[1] = "'" THEN Tail(text) ELSE text

\* C17: a cell that SetCell(pos, input) set and returned has an Empty body for the
\* empty input, a Formula body for an input of two or more characters that
\* starts with '=', a Text body for any other input, "=" included, and only
\* an input of the second kind is rejected.  A Text body gives the input as
\* GetText(), the input without one leading apostrophe as GetValue(), and
\* no referenced cells.
C17_BodyOfText ==
    /\ (call.op = "SetCell" /\ outcome \in Exceptions) => BodyOf(input) = "Formula"
    /\ \A c \in Pos :
           (cells_[c] = "cell" /\ content[c] = input)
           => /\ impl_[c].kind = BodyOf(input)
              /\ BodyOf(input) = "Text"
                 => /\ CellGetText(sheet, c) = input
                    /\ CellGetValue(sheet, c).v = StringValue(Unescaped(input))
                    /\ CellGetReferencedCells(sheet, c) = <<>>
                    /\ (call.op = "GetValue" /\ call.pos = c)
                       => ret = StringValue(Unescaped(input))

\* C17, its case: the text '=1 was set and read back as =1.
C17_Witness ==
    /\ input = <<"'", "=", "1">>
    /\ call.op = "GetValue"
    /\ content[call.pos] = input
    /\ CellGetText(sheet, call.pos) = input
    /\ ret = StringValue(<<"=", "1">>)

\* C18: a SetCell(p, ...) or ClearCell(p) that returns changes neither the
\* incoming set of p nor the outgoing set of any other cell; ClearCell on a
\* cell with incoming edges keeps the cell, Empty; a cell is dropped only by
\* ClearCell and only with an empty incoming set.
C18_FrameOfEdit ==
    [][(call'.op \in Edits /\ call'.pos \in Pos /\ outcome' = "ok")
       => /\ l_nodes_'[call'.pos] = l_nodes_[call'.pos]
          /\ \A q \in Pos \ {call'.pos} : r_nodes_'[q] = r_nodes_[q]
          /\ (call'.op = "ClearCell" /\ l_nodes_[call'.pos] # {})
             => /\ GetCellPtr([cells_ |-> cells_'], call'.pos) # nullptr
                /\ GetText(impl_'[call'.pos]) = <<>>
          /\ (cells_[call'.pos] = "cell" /\ cells_'[call'.pos] # "cell")
             => /\ call'.op = "ClearCell"
                /\ l_nodes_[call'.pos] = {}]_vars

\* C18, its case: ClearCell returned on a cell that a formula reads which
\* another formula reads; the cell is still there, Empty.
C18_Witness ==
    /\ call.op = "ClearCell"
    /\ outcome = "ok"
    /\ call.pos \in Pos
    /\ cells_[call.pos] = "cell"
    /\ impl_[call.pos].kind = "Empty"
    /\ \E c \in l_nodes_[call.pos] : call.pos \in r_nodes_[c] /\ l_nodes_[c] # {}

\* C19: the incoming and outgoing sets of the cells of the sheet name only
\* cells of the sheet, never a cell that ClearCell destroyed.
C19_NoDanglingEdge ==
    \A c \in Pos :
        cells_[c] = "cell"
        => \A d \in l_nodes_[c] \cup r_nodes_[c] : GetCellPtr(sheet, d) # nullptr

\* C19, its case: ClearCell has just destroyed a cell of a sheet on which a
\* formula reads another cell.
C19_Witness ==
    /\ call.op = "ClearCell"
    /\ outcome = "ok"
    /\ call.pos \in Pos
    /\ cells_[call.pos] = "null"
    /\ \E c, d \in Pos : d \in r_nodes_[c] /\ c \in l_nodes_[d]

====
